---------------------------- MODULE Spec2Model ----------------------------
(***************************************************************************)
(* react-mui-dynamic-data-table: the filter model (createFilters,          *)
(* countFilters, filterData of src/utils/datatable.ts) and the filter      *)
(* editing session (FilterButton and FilterModal with the DataTable that   *)
(* consumes the applied filters).                                          *)
(*                                                                         *)
(* JavaScript values are records [t, n, h, s]: t is the kind of value,     *)
(* n an integer, h TRUE when the number is n + 1/2, s a string.  Objects   *)
(* that the program shares by reference (the CheckboxItem objects whose    *)
(* `checked` field is assigned in place) live in `heap`.                   *)
(***************************************************************************)
EXTENDS Integers, Sequences, FiniteSets, TLC

\* Largest integer part of a number that occurs in a record or a bound.
MaxNum == 2
\* Longest dataset handed to filterData in the function specifications.
MaxRows == 2
\* Largest number the user types into a field of a range picker.
MaxTyped == 1
\* Longest sequence of events (clicks, edits, dataset changes) of a session.
MaxSteps == 6

(***************************************************************************)
(* JavaScript values                                                       *)
(***************************************************************************)
Str(s) == [t |-> "string", n |-> 0, h |-> FALSE, s |-> s]
Num(n) == [t |-> "number", n |-> n, h |-> FALSE, s |-> ""]
NumHalf(n) == [t |-> "number", n |-> n, h |-> TRUE, s |-> ""]
NaN == [t |-> "number", n |-> 0, h |-> FALSE, s |-> "NaN"]
Bool(b) == [t |-> "boolean", n |-> IF b THEN 1 ELSE 0, h |-> FALSE, s |-> ""]
NullV == [t |-> "null", n |-> 0, h |-> FALSE, s |-> ""]
UndefV == [t |-> "undefined", n |-> 0, h |-> FALSE, s |-> ""]
\* A plain object {id: s}; two objects with the same id are the same reference.
Obj(s) == [t |-> "object", n |-> 0, h |-> FALSE, s |-> s]
\* A Date whose time value is n milliseconds.
DateV(n) == [t |-> "date", n |-> n, h |-> FALSE, s |-> ""]

\* typeof v
TypeOf(v) == IF v.t \in {"null", "object", "date"} THEN "object" ELSE v.t

IsNaN(v) == v.t = "number" /\ v.s = "NaN"

\* v === null || v === undefined
Nullish(v) == v.t \in {"null", "undefined"}

\* a ?? b
Coalesce(a, b) == IF Nullish(a) THEN b ELSE a

\* a === b (objects by reference, NaN unequal to itself)
StrictEq(a, b) == a = b /\ ~IsNaN(a)

\* a <= b on numbers: false when either is NaN.  Numbers are compared in halves.
Lte(a, b) == /\ ~IsNaN(a)
             /\ ~IsNaN(b)
             /\ 2 * a.n + (IF a.h THEN 1 ELSE 0) <= 2 * b.n + (IF b.h THEN 1 ELSE 0)

\* The ISO date-time string of the time value n, 0 <= n <= 9.
IsoString(n) == "1970-01-01T00:00:00.00" \o ToString(n) \o "Z"

\* Date.parse(s): the time value of an ISO string, NaN for a string that is no date.
DateParse(s) == IF \E n \in 0..9 : s = IsoString(n)
                THEN Num(CHOOSE n \in 0..9 : s = IsoString(n))
                ELSE NaN

\* new Date(v).getTime() for a Date, a number (TimeClip drops the fraction) or a string.
DateGetTime(v) == CASE v.t = "date" -> Num(v.n)
                    [] v.t = "number" -> IF IsNaN(v) THEN NaN ELSE Num(v.n)
                    [] v.t = "string" -> DateParse(v.s)
                    [] OTHER -> NaN

\* v.toString() for a value that is not null or undefined.
JsToString(v) == CASE v.t = "string" -> v.s
                   [] v.t = "number" ->
                        IF IsNaN(v) THEN "NaN"
                        ELSE ToString(v.n) \o (IF v.h THEN ".5" ELSE "")
                   [] v.t = "boolean" -> IF v.n = 1 THEN "true" ELSE "false"
                   [] v.t = "object" -> "[object Object]"
                   [] v.t = "date" -> "Date@" \o ToString(v.n \div 1000) \o "s"
                   [] OTHER -> ""

\* The caller's extractor functions, by name: getId is (v) => v?.id, orDash is
\* (v) => v ?? '-', getLabel is (v) => v?.id ?? ''.
Call(f, v) == CASE f = "getId" -> (IF v.t = "object" THEN Str(v.s) ELSE UndefV)
                [] f = "orDash" -> (IF Nullish(v) THEN Str("-") ELSE v)
                [] f = "getLabel" -> (IF v.t = "object" THEN Str(v.s) ELSE Str(""))
                [] OTHER -> UndefV

\* f?.(v)
OptCall(f, v) == IF f = "undefined" THEN UndefV ELSE Call(f, v)

\* row[column]
Field(row, column) == IF column \in DOMAIN row THEN row[column] ELSE UndefV

(***************************************************************************)
(* src/utils/datatable.ts                                                  *)
(***************************************************************************)
isCheckboxInput(object) == "items" \in DOMAIN object /\ "selected" \notin DOMAIN object

isDropdownInput(object) == "items" \in DOMAIN object /\ "selected" \in DOMAIN object

isRangeInput(object) == "min" \in DOMAIN object /\ "max" \in DOMAIN object

\* A column definition of the schema.
Column(name, style, getFilterIdentifier) ==
    [name |-> name, style |-> style, canFilter |-> TRUE,
     getFilterIdentifier |-> getFilterIdentifier,
     getRenderedEntry |-> "undefined", getSearchEntry |-> "undefined",
     sort |-> "undefined", disableFilterModal |-> FALSE]

\* The entry createFilters makes for one column, before the options are populated.
emptyEntry(col) ==
    LET commonProps == [style |-> col.style,
                        getRenderedEntry |-> col.getRenderedEntry,
                        getFilterIdentifier |-> col.getFilterIdentifier,
                        getSearchEntry |-> col.getSearchEntry]
    IN  IF col.style \in {"date", "datetime", "time", "number"}
        THEN commonProps @@ [input |-> [min |-> NullV, max |-> NullV]]
        ELSE IF col.style = "select"
        THEN commonProps @@ [input |-> [items |-> <<>>, selected |-> NullV,
                                        disableFilterModal |-> col.disableFilterModal]]
        ELSE commonProps @@ [input |-> [items |-> <<>>,
                                        disableFilterModal |-> col.disableFilterModal]]

\* data.forEach of createFilters pushing an item for every labelled row.
RECURSIVE populateEvery(_, _, _, _)
populateEvery(filter, column, data, k) ==
    IF k = 0 THEN filter.input.items
    ELSE LET items == populateEvery(filter, column, data, k - 1)
             entry == Field(data[k], column)
             node == IF filter.input.disableFilterModal
                     THEN Coalesce(OptCall(filter.getSearchEntry, entry), entry)
                     ELSE Coalesce(OptCall(filter.getRenderedEntry, entry), entry)
             id == Coalesce(Coalesce(OptCall(filter.getFilterIdentifier, entry), entry),
                            Num(k - 1))
             populatedItem == [value |-> JsToString(id), node |-> node]
         IN  IF Nullish(node) THEN items
             ELSE IF isCheckboxInput(filter.input)
             THEN Append(items, populatedItem @@ [checked |-> FALSE])
             ELSE Append(items, populatedItem)

\* The items of `filter` after rows 1..k of data are visited (data.forEach, lines 81-104).
RECURSIVE populate(_, _, _, _)
populate(filter, column, data, k) ==
    IF k = 0 THEN filter.input.items
    ELSE LET items == populate(filter, column, data, k - 1)
             entry == Field(data[k], column)
             node == IF filter.input.disableFilterModal
                     THEN Coalesce(OptCall(filter.getSearchEntry, entry), entry)
                     ELSE Coalesce(OptCall(filter.getRenderedEntry, entry), entry)
             id == Coalesce(Coalesce(OptCall(filter.getFilterIdentifier, entry), entry),
                            Num(k - 1))
             populatedItem == [value |-> JsToString(id), node |-> node]
         IN  IF Nullish(node) THEN items
             ELSE IF \A i \in DOMAIN items : items[i].value # populatedItem.value
             THEN IF isCheckboxInput(filter.input)
                  THEN Append(items, populatedItem @@ [checked |-> FALSE])
                  ELSE Append(items, populatedItem)
             ELSE items

\* createFilters(data, columns): one entry per column, keyed by the column's name.
createFilters(data, columns) ==
    [name \in {columns[i].name : i \in DOMAIN columns} |->
        LET col == columns[CHOOSE i \in DOMAIN columns :
                              /\ columns[i].name = name
                              /\ \A j \in DOMAIN columns : columns[j].name = name => j <= i]
            filter == emptyEntry(col)
        IN  IF isDropdownInput(filter.input) \/ isCheckboxInput(filter.input)
            THEN [filter EXCEPT !.input.items = populate(filter, name, data, Len(data))]
            ELSE filter]

\* countFilters' per-column count with a range counted as soon as one bound is set.
countOfEitherBound(filter) ==
    LET input == filter.input
    IN  IF isRangeInput(input)
        THEN (IF input.min # NullV \/ input.max # NullV THEN 1 ELSE 0)
        ELSE IF isCheckboxInput(input)
        THEN Cardinality({i \in DOMAIN input.items : input.items[i].checked})
        ELSE IF isDropdownInput(input)
        THEN (IF input.selected # NullV /\ input.selected # Str("") THEN 1 ELSE 0)
        ELSE 0

\* The number countFilters adds for one entry.
countOf(filter) ==
    LET input == filter.input
    IN  IF isRangeInput(input)
        THEN (IF input.min # NullV /\ input.max # NullV THEN 1 ELSE 0)
        ELSE IF isCheckboxInput(input)
        THEN Cardinality({i \in DOMAIN input.items : input.items[i].checked})
        ELSE IF isDropdownInput(input)
        THEN (IF input.selected # NullV /\ input.selected # Str("") THEN 1 ELSE 0)
        ELSE 0

RECURSIVE sumOver(_, _)
sumOver(filters, fields) ==
    IF fields = {} THEN 0
    ELSE LET field == CHOOSE f \in fields : TRUE
         IN  countOf(filters[field]) + sumOver(filters, fields \ {field})

\* countFilters(filters)
countFilters(filters) == sumOver(filters, DOMAIN filters)

\* The multi-check branch without its "nothing checked" case.
keepCheckboxChecked(input, entry) ==
    IF TypeOf(entry) \notin {"string", "number", "boolean"}
    THEN TRUE
    ELSE \E i \in DOMAIN input.items :
            /\ input.items[i].checked
            /\ input.items[i].value = JsToString(entry)

\* The checkbox branch of filterData's column callback (lines 156-172).
keepCheckbox(input, entry) ==
    LET checkedCount == Cardinality({i \in DOMAIN input.items : input.items[i].checked})
    IN  IF TypeOf(entry) \notin {"string", "number", "boolean"}
        THEN TRUE
        ELSE \/ \E i \in DOMAIN input.items :
                   /\ input.items[i].checked
                   /\ input.items[i].value = JsToString(entry)
             \/ checkedCount = 0

\* The range branch of filterData's column callback (lines 174-198).
keepRange(input, entry) ==
    LET min == input.min
        max == input.max
        numericEntry == IF entry.t \in {"date", "number", "string"}
                        THEN DateGetTime(entry)
                        ELSE entry
    IN  IF min = NullV /\ max = NullV THEN TRUE
        ELSE IF TypeOf(numericEntry) = "number"
        THEN IF min # NullV /\ max # NullV
             THEN Lte(min, numericEntry) /\ Lte(numericEntry, max)
             ELSE IF min # NullV THEN Lte(min, numericEntry)
             ELSE Lte(numericEntry, max)
        ELSE FALSE

\* The select branch comparing string forms instead of ===.
keepDropdownLoose(input, dropdownOptionEntry) ==
    \/ JsToString(dropdownOptionEntry) = JsToString(input.selected)
    \/ input.selected = NullV
    \/ input.selected = Str("")

\* The select branch of filterData's column callback (lines 200-208).
keepDropdown(input, dropdownOptionEntry) ==
    \/ StrictEq(dropdownOptionEntry, input.selected)
    \/ input.selected = NullV
    \/ input.selected = Str("")

\* Whether filterData's column callback keeps `column` of `row` (lines 149-210).
keepField(row, column, filters) ==
    IF column \notin DOMAIN filters THEN TRUE
    ELSE LET filter == filters[column]
             input == filter.input
             rawEntry == row[column]
             entry == Coalesce(OptCall(filter.getFilterIdentifier, rawEntry), rawEntry)
         IN  IF isCheckboxInput(input) THEN keepCheckbox(input, entry)
             ELSE IF isRangeInput(input) THEN keepRange(input, entry)
             ELSE IF isDropdownInput(input)
             THEN keepDropdown(input,
                               Coalesce(OptCall(filter.getFilterIdentifier, row[column]),
                                        row[column]))
             ELSE TRUE

\* filterData's record test satisfied by one kept column.
keepRowAny(row, filters) ==
    LET columns == DOMAIN row
        keepFields == {column \in columns : keepField(row, column, filters)}
    IN  Cardinality(keepFields) >= 1

\* Whether filterData keeps the record: every one of its columns is kept (line 211).
keepRow(row, filters) ==
    LET columns == DOMAIN row
        keepFields == {column \in columns : keepField(row, column, filters)}
    IN  Cardinality(keepFields) = Cardinality(columns)

\* A value that stands for `filters` being null.
NoFilters == [null |-> TRUE]

\* filterData(data, filters) on records {key, row}.
filterData(data, filters) ==
    IF filters = NoFilters THEN data
    ELSE SelectSeq(data, LAMBDA rec : keepRow(rec.row, filters))

\* idData: the master data with each row's index as its key (DataTable.tsx 335-338).
idData(masterData) == [i \in DOMAIN masterData |-> [row |-> masterData[i], key |-> i - 1]]

(***************************************************************************)
(* Text: a string as the sequence of its characters                        *)
(***************************************************************************)
\* The characters of the strings that occur in the table's records.
Chars(s) == CASE s = "" -> <<>>
              [] s = "-" -> <<"-">>
              [] s = "Ab" -> <<"A", "b">>
              [] s = "a b" -> <<"a", " ", "b">>
              [] s = "b.c" -> <<"b", ".", "c">>
              [] s = "ab" -> <<"a", "b">>
              [] s = "true" -> <<"t", "r", "u", "e">>
              [] s = "false" -> <<"f", "a", "l", "s", "e">>
              [] s \in {ToString(n) : n \in 0..9} -> <<s>>
              [] OTHER -> <<"?">>

\* c.toLocaleLowerCase() of one character
lowerChar(c) == CASE c = "A" -> "a" [] c = "B" -> "b" [] OTHER -> c

\* text.toLocaleLowerCase()
toLocaleLowerCase(text) == [i \in DOMAIN text |-> lowerChar(text[i])]

\* text.replace(/\s/gu, '')
removeSpace(text) == SelectSeq(text, LAMBDA c : c # " ")

\* The characters of the class in escapeRegExp's pattern (regex.ts line 2).
SpecialChars == {"/", "\\", "^", "$", "*", "+", "?", ".", "(", ")", "|", "[", "]", "{", "}"}

\* The query used as the pattern as it is.
noEscape(stringToGoIntoTheRegex) == stringToGoIntoTheRegex

\* escapeRegExp: a backslash before every special character.
RECURSIVE escapeRegExp(_)
escapeRegExp(stringToGoIntoTheRegex) ==
    IF stringToGoIntoTheRegex = <<>> THEN <<>>
    ELSE (IF Head(stringToGoIntoTheRegex) \in SpecialChars
          THEN <<"\\", Head(stringToGoIntoTheRegex)>>
          ELSE <<Head(stringToGoIntoTheRegex)>>)
         \o escapeRegExp(Tail(stringToGoIntoTheRegex))

\* Whether new RegExp(pattern, 'u') is a pattern and not a SyntaxError, for patterns
\* of letters, digits, '-', '.', '(' and backslash escapes: an open group never
\* closes and a trailing backslash escapes nothing.
RECURSIVE regExpValid(_)
regExpValid(pattern) ==
    IF pattern = <<>> THEN TRUE
    ELSE IF Head(pattern) = "\\"
    THEN Len(pattern) >= 2 /\ regExpValid(SubSeq(pattern, 3, Len(pattern)))
    ELSE IF Head(pattern) = "(" THEN FALSE
    ELSE regExpValid(Tail(pattern))

\* The atoms of a valid pattern: an escaped character is that character, '.' is any
\* character, another character is itself.
RECURSIVE regExpAtoms(_)
regExpAtoms(pattern) ==
    IF pattern = <<>> THEN <<>>
    ELSE IF Head(pattern) = "\\"
    THEN <<[any |-> FALSE, c |-> pattern[2]]>> \o regExpAtoms(SubSeq(pattern, 3, Len(pattern)))
    ELSE IF Head(pattern) = "."
    THEN <<[any |-> TRUE, c |-> "."]>> \o regExpAtoms(Tail(pattern))
    ELSE <<[any |-> FALSE, c |-> Head(pattern)]>> \o regExpAtoms(Tail(pattern))

\* new RegExp(pattern, 'u').test(text): the atoms match somewhere in text.
regExpTest(pattern, text) ==
    LET atoms == regExpAtoms(pattern)
    IN  \E at \in 0..Len(text) :
            /\ at + Len(atoms) <= Len(text)
            /\ \A k \in DOMAIN atoms : atoms[k].any \/ atoms[k].c = text[at + k]

(***************************************************************************)
(* DataTable.tsx: dataString, searchData, sortData                         *)
(***************************************************************************)
\* String(v)
StringOf(v) == CASE v.t = "null" -> "null"
                 [] v.t = "undefined" -> "undefined"
                 [] OTHER -> JsToString(v)

\* dataString(value, style) for the styles default, number and select (the date
\* styles format with moment): '-' for an object, null, undefined and '', else
\* String(value).
dataString(value, style) ==
    IF TypeOf(value) = "object" THEN Chars("-")
    ELSE IF Nullish(value) \/ value = Str("") THEN Chars("-")
    ELSE Chars(StringOf(value))

\* The text of one column of a row that searchData tests (lines 511-526).
searchValue(row, column) ==
    LET raw == Field(row, column.name)
        rawValue == dataString(raw, column.style)
        value == IF ~(column.getRenderedEntry # "undefined" /\ TypeOf(raw) = "object")
                 THEN toLocaleLowerCase(removeSpace(rawValue))
                 ELSE <<>>
    IN  IF column.getSearchEntry # "undefined"
        THEN toLocaleLowerCase(removeSpace(Chars(Call(column.getSearchEntry, raw).s)))
        ELSE value

\* Whether searchData throws: new RegExp is reached for a row and a column and
\* rejects the pattern.
searchThrows(input, data, cols) ==
    /\ data # <<>>
    /\ cols # <<>>
    /\ ~regExpValid(escapeRegExp(input))

\* searchData(input, data): toReturn, the rows with a column whose text matches.
searchData(input, data, cols) ==
    LET escapedInput == escapeRegExp(input)
    IN  SelectSeq(data, LAMBDA d :
            \E i \in DOMAIN cols : regExpTest(escapedInput, searchValue(d.row, cols[i])))

\* The place of a string in the order of localeCompare, for the strings of the
\* table's records.
Rank(s) == CASE s = "" -> 0
             [] s = "-" -> 1
             [] s = "[object Object]" -> 2
             [] s \in {ToString(n) : n \in 0..9} -> 3 + (CHOOSE n \in 0..9 : s = ToString(n))
             [] s = "a b" -> 13
             [] s = "ab" -> 14
             [] s = "Ab" -> 15
             [] s = "b.c" -> 16
             [] s = "false" -> 17
             [] s = "null" -> 18
             [] s = "true" -> 19
             [] s = "undefined" -> 20
             [] OTHER -> 21

\* The sign of an integer.
Sign(n) == IF n < 0 THEN -1 ELSE IF n > 0 THEN 1 ELSE 0

\* a.localeCompare(b)
localeCompare(a, b) == Sign(Rank(a) - Rank(b))

\* a - b on numbers, as a sign; 0 stands for NaN, which sort takes for 0.
Minus(a, b) == IF IsNaN(a) \/ IsNaN(b) THEN 0
               ELSE Sign((2 * a.n + (IF a.h THEN 1 ELSE 0)) - (2 * b.n + (IF b.h THEN 1 ELSE 0)))

\* The caller's sort callbacks, by name, as a sign: byId is
\* (a, b) => a.id.localeCompare(b.id).
CallSort(f, valueA, valueB) ==
    CASE f = "byId" -> localeCompare(valueA.s, valueB.s)
      [] OTHER -> 0

\* The time value of new Date(v) once setDate, setMonth and setFullYear have moved
\* it to today: today's midnight, taken as 0, plus v's time of day.
timeToday(v) ==
    LET time == DateGetTime(v)
    IN  IF IsNaN(time) THEN NaN ELSE Num(time.n % 86400000)

\* sortData(a, b), as a sign.
sortData(a, b, cols, sortingBy, sortingOrder) ==
    LET valueA == Field(a.row, sortingBy)
        valueB == Field(b.row, sortingBy)
        found == {i \in DOMAIN cols : cols[i].name = sortingBy}
        column == cols[CHOOSE i \in found : \A j \in found : i <= j]
        direction == IF sortingOrder = "asc" THEN 1 ELSE -1
        cmprA == IF sortingOrder = "asc" THEN valueB ELSE valueA
        cmprB == IF sortingOrder = "asc" THEN valueA ELSE valueB
        datable(v) == v.t \in {"date", "number", "string"}
        dict(v) == v.t = "object"
    IN  IF found = {} THEN -1
        ELSE IF column.style \in {"date", "datetime"}
        THEN IF ~datable(cmprA) THEN 1
             ELSE IF ~datable(cmprB) THEN -1
             ELSE Minus(DateGetTime(cmprA), DateGetTime(cmprB))
        ELSE IF column.style = "time"
        THEN IF ~datable(cmprA) THEN 1
             ELSE IF ~datable(cmprB) THEN -1
             ELSE Minus(timeToday(cmprA), timeToday(cmprB))
        ELSE IF TypeOf(valueA) = "number" /\ TypeOf(valueB) = "number"
        THEN direction * Minus(valueB, valueA)
        ELSE IF column.sort # "undefined" /\ dict(valueA) /\ dict(valueB)
        THEN direction * CallSort(column.sort, valueA, valueB)
        ELSE IF column.getSearchEntry # "undefined" /\ dict(valueA) /\ dict(valueB)
        THEN direction * localeCompare(StringOf(Call(column.getSearchEntry, valueB)),
                                       StringOf(Call(column.getSearchEntry, valueA)))
        ELSE direction * localeCompare(StringOf(valueB), StringOf(valueA))

\* The arrangements of a sequence.
Arrangements(q) ==
    {[i \in DOMAIN q |-> q[f[i]]] :
        f \in {g \in [DOMAIN q -> DOMAIN q] : \A i, j \in DOMAIN q : i # j => g[i] # g[j]}}

\* Whether sortData is a consistent comparator on the rows of q.
consistent(q, cols, sortingBy, sortingOrder) ==
    LET cmp(i, j) == sortData(q[i], q[j], cols, sortingBy, sortingOrder)
    IN  /\ \A i, j \in DOMAIN q : cmp(i, j) = -cmp(j, i)
        /\ \A i, j, k \in DOMAIN q : cmp(i, j) <= 0 /\ cmp(j, k) <= 0 => cmp(i, k) <= 0

\* What q.sort(sortData) may leave in q: with a consistent comparator an arrangement
\* in its order (equal rows in the order the array had, which earlier sorts of the
\* same array decide), with an inconsistent one whatever the engine does.
sortOutcomes(q, cols, sortingBy, sortingOrder) ==
    IF consistent(q, cols, sortingBy, sortingOrder)
    THEN {r \in Arrangements(q) :
             \A i, j \in DOMAIN r :
                 i < j => sortData(r[i], r[j], cols, sortingBy, sortingOrder) <= 0}
    ELSE Arrangements(q)

\* q.slice(from, to)
slice(q, from, to) ==
    LET last == IF to < Len(q) THEN to ELSE Len(q)
    IN  IF from >= last THEN <<>> ELSE SubSeq(q, from + 1, last)

(***************************************************************************)
(* State                                                                   *)
(***************************************************************************)
VARIABLES
    data,                   \* DataTable: the data prop (masterData)
    columns,                \* DataTable: the columns prop
    tableFilters,           \* DataTable: filters, null until FilterButton's onChange
    filters,                \* FilterButton: filters
    numFilters,             \* FilterButton: numFilters
    open,                   \* FilterButton: open
    selectedFilters,        \* FilterModal: selectedFilters
    backupSelectedFilters,  \* FilterModal: backupSelectedFilters
    validation,             \* FilterModal: validation
    heap,                   \* the `checked` fields of the CheckboxItem objects
    lastOp,                 \* history: the handler that ran last
    preClear,               \* history: the draft as it was when clearFilters ran last
    sinceEdit,              \* history: "edited", or "applied" / "reapplied" when apply
                            \* ran once / again since the last edit
    steps,                  \* history: the number of handlers that have run
    draftCleared,           \* history: the draft is the copy clearFilters made in this
                            \* session, or that copy edited
    clears,                 \* history: the drafts clearFilters found, one per clear of
                            \* the session, which ends with an apply or a close
    fdata,                  \* function specifications: the dataset argument
    fmodel,                 \* function specifications: the filters argument
    fout,                   \* function specifications: what filterData returned
    fcount,                 \* function specifications: what countFilters returned
    fpc,                    \* function specifications: "in" before the call, "out" after
    localStorage,           \* window.localStorage: the item 'rowsPerPage', or null
    tableStatus,            \* DataTable: "rendered", then "mounted" once the mount effect
                            \* has run, "crashed" when an effect or a render threw
    rowsPerPage,            \* DataTable: rowsPerPage
    page,                   \* DataTable: page
    typed,                  \* history: the text last typed into the search field
    query,                  \* DataTable: query
    sortingBy,              \* DataTable: sortingBy
    sortingOrder,           \* DataTable: sortingOrder
    searched,               \* DataTable: what searchData returned in the last render
    tableData,              \* DataTable: tableData, sorted in place
    displayData             \* DataTable: displayData

sessionVars == <<data, columns, tableFilters, filters, numFilters, open, selectedFilters,
                 backupSelectedFilters, validation, heap, lastOp, preClear,
                 sinceEdit, steps, draftCleared, clears>>

functionVars == <<fdata, fmodel, fout, fcount, fpc>>

tableVars == <<localStorage, tableStatus, rowsPerPage, page, typed, query, sortingBy,
               sortingOrder, searched, tableData, displayData>>

vars == <<sessionVars, functionVars, tableVars>>

(***************************************************************************)
(* Inputs                                                                  *)
(***************************************************************************)
\* A record of the example application's dataset.
User(firstName, lastName, age) ==
    [firstName |-> Str(firstName), lastName |-> Str(lastName), age |-> Num(age)]

\* The example application's columns.
AppColumns == <<Column("firstName", "default", "undefined"),
                Column("lastName", "select", "undefined"),
                Column("age", "number", "undefined")>>

\* colsCanFilter (DataTable.tsx 566): the columns FilterButton receives.
colsCanFilter(cols) == SelectSeq(cols, LAMBDA c : c.canFilter)

\* Records for filterData: users, a record with no age, a null last name and a column
\* that no filter names, and a record whose values are of other types.
SampleRows == {User("Bob", "Price", 1), User("Alice", "Smith", 2),
               [firstName |-> Str("Bob"), lastName |-> NullV, id |-> Num(7)],
               [firstName |-> Obj("a"), lastName |-> Num(1), age |-> Str("a")]}

\* All sequences over S of length at most n.
RECURSIVE SeqsUpTo(_, _)
SeqsUpTo(S, n) ==
    IF n = 0 THEN {<<>>}
    ELSE LET shorter == SeqsUpTo(S, n - 1)
         IN  shorter \cup {Append(q, x) : q \in {r \in shorter : Len(r) = n - 1}, x \in S}

\* The numbers 0, 0.5, 1, ... up to MaxNum.5
Numbers == {Num(n) : n \in 0..MaxNum} \cup {NumHalf(n) : n \in 0..MaxNum}

\* The values a record's field takes in the function specifications.
Values == Numbers \cup {Str("a"), Str("b"), Str("1"), Str(IsoString(1)), Bool(TRUE),
                        NullV, Obj("a"), DateV(1)}

(***************************************************************************)
(* Filters objects and the CheckboxItem objects they share                 *)
(*                                                                         *)
(* A Filters object held in a state variable is [gen, m]: m is its content *)
(* without the items' `checked` fields, and gen names the CheckboxItem     *)
(* objects its items arrays hold.  createFilters and cloneDeep make new    *)
(* item objects; selectCheckbox, setRange and setSelect copy the Filters   *)
(* object and its inputs but keep the item objects.  heap[gen] is the set  *)
(* of <<column, index>> of the item objects of gen whose checked is true.  *)
(***************************************************************************)
\* Four Filters objects are held at any time, so four sets of item objects suffice.
Gens == 1..4

NullRef == [gen |-> 0, m |-> NoFilters]

Ref(g, m) == [gen |-> g, m |-> m]

\* The content of a Filters object, its items' checked fields read from the heap h.
DerefIn(h, f) ==
    IF f = NullRef THEN NoFilters
    ELSE [c \in DOMAIN f.m |->
            IF isCheckboxInput(f.m[c].input)
            THEN [f.m[c] EXCEPT !.input.items =
                     [i \in DOMAIN @ |-> [@[i] EXCEPT !.checked = <<c, i>> \in h[f.gen]]]]
            ELSE f.m[c]]

Deref(f) == DerefIn(heap, f)

\* A set of item objects that no Filters object in `live` holds.
NewGen(live) == CHOOSE g \in Gens : g \notin {f.gen : f \in live} /\
                    \A k \in Gens : k \notin {f.gen : f \in live} => g <= k

\* The heap with the item objects no Filters object in `live` reaches dropped.
Collect(h, live) == [g \in Gens |-> IF g \in {f.gen : f \in live} THEN h[g] ELSE {}]

(***************************************************************************)
(* FilterModal's edits of a Filters object's content                       *)
(***************************************************************************)
\* selectCheckbox's new content (lines 1005-1023): the item of that value gets `checked`.
withChecked(model, columnName, value, checked) ==
    LET selectedInput == model[columnName].input
    IN  IF isCheckboxInput(selectedInput)
        THEN [model EXCEPT ![columnName].input.items =
                 [i \in DOMAIN @ |-> IF @[i].value = value
                                     THEN [@[i] EXCEPT !.checked = checked]
                                     ELSE @[i]]]
        ELSE model

\* setRange's new content (lines 1043-1057).
withRange(model, columnName, min, max) ==
    LET selectedInput == model[columnName].input
    IN  IF isRangeInput(selectedInput)
        THEN [model EXCEPT ![columnName].input = [selectedInput EXCEPT !.min = min,
                                                                       !.max = max]]
        ELSE model

\* setSelect's new content (lines 1074-1087).
withSelected(model, columnName, selected) ==
    LET selectedInput == model[columnName].input
    IN  IF isDropdownInput(selectedInput)
        THEN [model EXCEPT ![columnName].input = [selectedInput EXCEPT !.selected = selected]]
        ELSE model

\* The columns of a model whose input is of the given kind.
CheckboxColumns(model) == {c \in DOMAIN model : isCheckboxInput(model[c].input)}
RangeColumns(model) == {c \in DOMAIN model : isRangeInput(model[c].input)}
DropdownColumns(model) == {c \in DOMAIN model : isDropdownInput(model[c].input)}

(***************************************************************************)
(* The filter editing session: initial state                               *)
(***************************************************************************)
\* The schemas the application supplies: the example's, the example's with
\* lastName no longer filterable, and that one with lastName's style changed.
Schemas == {AppColumns,
            <<AppColumns[1], [AppColumns[2] EXCEPT !.canFilter = FALSE], AppColumns[3]>>,
            <<AppColumns[1], [AppColumns[2] EXCEPT !.canFilter = FALSE, !.style = "default"],
              AppColumns[3]>>}

\* The datasets the application supplies, one after the other.
Datasets == {<<User("Bob", "Price", 1)>>,
             <<User("Bob", "Price", 1), User("Alice", "Price", 2)>>}

\* After mount: FilterButton's effect has replaced the model its useState built,
\* FilterModal's effect has copied the new one into selectedFilters, and
\* backupSelectedFilters still holds the first.
SessionInit ==
    /\ data \in Datasets
    /\ columns = AppColumns
    /\ tableFilters = NullRef
    /\ filters = Ref(1, createFilters(data, colsCanFilter(columns)))
    /\ numFilters = 0
    /\ open = FALSE
    /\ selectedFilters = filters
    /\ backupSelectedFilters = Ref(2, createFilters(data, colsCanFilter(columns)))
    /\ validation = [cleared |-> FALSE]
    /\ heap = [g \in Gens |-> {}]
    /\ lastOp = "mount"
    /\ preClear = NoFilters
    /\ sinceEdit = "edited"
    /\ steps = 0
    /\ draftCleared = FALSE
    /\ clears = <<>>

\* The table of the session and function specifications: nothing stored, never
\* rendered.
TableIdle ==
    /\ localStorage = NullV
    /\ tableStatus = "idle"
    /\ rowsPerPage = Num(25)
    /\ page = 0
    /\ typed = <<>>
    /\ query = <<>>
    /\ sortingBy = ""
    /\ sortingOrder = "desc"
    /\ searched = <<>>
    /\ tableData = <<>>
    /\ displayData = <<>>

\* The session of the function specifications: mounted on one dataset and left alone.
SessionIdle == SessionInit /\ data = <<User("Bob", "Price", 1)>> /\ TableIdle

\* The function specifications call nothing yet.
FunctionIdle ==
    /\ fdata = <<>>
    /\ fmodel = NoFilters
    /\ fout = <<>>
    /\ fcount = 0
    /\ fpc = "idle"

Init == SessionInit /\ FunctionIdle /\ TableIdle

(***************************************************************************)
(* Function specifications: filterData and countFilters on drawn inputs    *)
(***************************************************************************)
\* The filters argument is ready and the functions have not run.
FunctionIn(rows, model) ==
    /\ fdata = rows
    /\ fmodel = model
    /\ fout = <<>>
    /\ fcount = 0
    /\ fpc = "in"

\* The identifier callbacks a column may declare.
Identifiers == {"undefined", "getId"}

\* The bounds a range holds.
Bounds == {NullV} \cup Numbers

\* One record with an age, one range filter on age.
InitRange ==
    /\ SessionIdle
    /\ \E v \in Values \ {Str("1")}, min \in Bounds, max \in Bounds, g \in Identifiers :
          FunctionIn(<<[age |-> v]>>,
                     withRange(createFilters(<<>>, <<Column("age", "number", g)>>),
                               "age", min, max))

\* The items of the checkbox and select filters of the function specifications.
OptionRows == <<[name |-> Str("a")], [name |-> Num(1)], [name |-> Bool(TRUE)]>>

\* One record with a name, one checkbox filter on name with any items checked.
InitCheckbox ==
    /\ SessionIdle
    /\ \E v \in Values, g \in Identifiers, on \in SUBSET {"a", "1", "true"} :
          LET built == createFilters(OptionRows, <<Column("name", "default", g)>>)
              items == built["name"].input.items
          IN  FunctionIn(<<[name |-> v]>>,
                         [built EXCEPT !["name"].input.items =
                             [i \in DOMAIN items |->
                                 [items[i] EXCEPT !.checked = items[i].value \in on]]])

\* One record with a name, one select filter on name with any selection.
InitDropdown ==
    /\ SessionIdle
    /\ \E v \in Values, g \in Identifiers,
          selected \in {NullV, Str(""), Str("a"), Str("1"), Str("true"), Num(1)} :
          FunctionIn(<<[name |-> v]>>,
                     withSelected(createFilters(OptionRows, <<Column("name", "select", g)>>),
                                  "name", selected))

\* A dataset of sample records and the model createFilters builds from it.
InitFilter ==
    /\ SessionIdle
    /\ \E rows \in SeqsUpTo(SampleRows, MaxRows) :
          FunctionIn(rows, createFilters(rows, colsCanFilter(AppColumns)))

\* filterData(idData, filters) and countFilters(filters) are called.
RunFilter ==
    /\ fpc = "in"
    /\ fout' = filterData(idData(fdata), fmodel)
    /\ fcount' = countFilters(fmodel)
    /\ fpc' = "out"
    /\ UNCHANGED <<fdata, fmodel, sessionVars, tableVars>>

\* The filters argument becomes `model`.
Edit(model) ==
    /\ fpc \in {"in", "out"}
    /\ model # fmodel
    /\ fmodel' = model
    /\ fout' = <<>>
    /\ fcount' = 0
    /\ fpc' = "in"
    /\ UNCHANGED <<fdata, sessionVars, tableVars>>

\* A checkbox item is checked or unchecked.
EditCheckbox ==
    \E c \in CheckboxColumns(fmodel) :
        \E i \in DOMAIN fmodel[c].input.items :
            Edit(withChecked(fmodel, c, fmodel[c].input.items[i].value,
                             ~fmodel[c].input.items[i].checked))

\* A range's bounds are set or unset.
EditRange ==
    \E c \in RangeColumns(fmodel),
       min \in {NullV} \cup {Num(n) : n \in 0..MaxNum},
       max \in {NullV} \cup {Num(n) : n \in 0..MaxNum} :
        Edit(withRange(fmodel, c, min, max))

\* An option of a select is chosen, or none.
EditDropdown ==
    \E c \in DropdownColumns(fmodel) :
        \E selected \in {NullV, Str("")} \cup
                        {Str(fmodel[c].input.items[i].value) :
                            i \in DOMAIN fmodel[c].input.items} :
            Edit(withSelected(fmodel, c, selected))

NextFilter == RunFilter \/ EditCheckbox \/ EditRange \/ EditDropdown

SpecRange == InitRange /\ [][RunFilter]_vars
SpecCheckbox == InitCheckbox /\ [][RunFilter]_vars
SpecDropdown == InitDropdown /\ [][RunFilter]_vars
SpecFilter == InitFilter /\ [][NextFilter]_vars

\* A schema with every kind of column: a plain checkbox column, a checkbox column of
\* objects with an identifier and a renderer, a select column whose options show the
\* search text, and a number column.
BuildColumns ==
    <<Column("name", "default", "undefined"),
      [Column("ref", "default", "getId") EXCEPT !.getRenderedEntry = "orDash"],
      [Column("kind", "select", "undefined") EXCEPT !.getSearchEntry = "getId",
                                                    !.disableFilterModal = TRUE],
      Column("age", "number", "undefined")>>

\* Records for createFilters: repeated values, values with the same string form,
\* objects with the same id, and null.
BuildRows ==
    {[name |-> Str("a"), ref |-> Obj("a"), kind |-> Obj("a"), age |-> Num(1)],
     [name |-> Num(1), ref |-> Obj("b"), kind |-> Obj("b"), age |-> Num(2)],
     [name |-> Str("1"), ref |-> Obj("a"), kind |-> Str("a"), age |-> Num(1)],
     [name |-> NullV, ref |-> NullV, kind |-> NullV, age |-> NullV],
     [name |-> Bool(TRUE), ref |-> Str("1"), kind |-> Num(1), age |-> Str("a")]}

\* A dataset of up to MaxBuildRows records, not yet built.
MaxBuildRows == 3
InitBuild ==
    /\ SessionIdle
    /\ \E rows \in SeqsUpTo(BuildRows, MaxBuildRows) : FunctionIn(rows, NoFilters)

\* createFilters(data, columns) is called.
RunBuild ==
    /\ fpc = "in"
    /\ fmodel' = createFilters(fdata, BuildColumns)
    /\ fpc' = "out"
    /\ UNCHANGED <<fdata, fout, fcount, sessionVars, tableVars>>

SpecBuild == InitBuild /\ [][RunBuild]_vars

(***************************************************************************)
(* Function specification: sortData on drawn records                       *)
(***************************************************************************)
\* The values of the sorted column: Dates on two days, a number, a date string, a
\* string that is no date, null, and two objects.
SortValues == {DateV(1), DateV(86400000), Num(2), Str(IsoString(3)), Str("ab"), NullV,
               Obj("ab"), Obj("b.c")}

\* The sorted column under every dispatch rule of sortData: the date and time
\* styles, number, plain text, objects with a sort callback and objects with a
\* search extractor.
SortSchemas ==
    {<<Column("when", style, "undefined")>> :
        style \in {"date", "datetime", "time", "number", "default"}}
    \cup {<<[Column("when", "default", "undefined") EXCEPT !.sort = "byId"]>>,
          <<[Column("when", "default", "undefined") EXCEPT !.getSearchEntry = "getLabel"]>>}

\* Three records, a schema, a sort key that names the column or none, and a
\* direction; nothing compared yet.
InitSort ==
    /\ \E a \in SortValues, b \in SortValues, c \in SortValues :
          data = <<[when |-> a], [when |-> b], [when |-> c]>>
    /\ columns \in SortSchemas
    /\ tableFilters = NullRef
    /\ filters = Ref(1, createFilters(data, colsCanFilter(columns)))
    /\ numFilters = 0
    /\ open = FALSE
    /\ selectedFilters = filters
    /\ backupSelectedFilters = Ref(2, createFilters(data, colsCanFilter(columns)))
    /\ validation = [cleared |-> FALSE]
    /\ heap = [g \in Gens |-> {}]
    /\ lastOp = "mount"
    /\ preClear = NoFilters
    /\ sinceEdit = "edited"
    /\ steps = 0
    /\ draftCleared = FALSE
    /\ clears = <<>>
    /\ fdata = <<>>
    /\ fmodel = NoFilters
    /\ fout = <<>>
    /\ fcount = 0
    /\ fpc = "in"
    /\ localStorage = NullV
    /\ tableStatus = "idle"
    /\ rowsPerPage = Num(25)
    /\ page = 0
    /\ typed = <<>>
    /\ query = <<>>
    /\ sortingBy \in {"when", "a"}
    /\ sortingOrder \in {"asc", "desc"}
    /\ searched = <<>>
    /\ tableData = <<>>
    /\ displayData = <<>>

\* sortData is called on every pair of the records, and the records are sorted by it.
RunSort ==
    /\ fpc = "in"
    /\ fout' = [i \in DOMAIN data |->
                  [j \in DOMAIN data |->
                      sortData(idData(data)[i], idData(data)[j], columns, sortingBy,
                               sortingOrder)]]
    /\ tableData' \in sortOutcomes(idData(data), columns, sortingBy, sortingOrder)
    /\ fpc' = "out"
    /\ UNCHANGED <<fdata, fmodel, fcount, sessionVars>>
    /\ UNCHANGED <<localStorage, tableStatus, rowsPerPage, page, typed, query, sortingBy,
                   sortingOrder, searched, displayData>>

SpecSort == InitSort /\ [][RunSort]_vars

(***************************************************************************)
(* Claims about filterData and countFilters                                *)
(***************************************************************************)
\* The one record of the dataset of SpecRange, SpecCheckbox and SpecDropdown.
TheRow == fdata[1]

\* filterData kept the one record.
Passed == Len(fout) = 1

\* The effective value the filter of `column` sees: the identifier callback's result
\* when there is one and it returns a value, otherwise the raw value.
Effective(row, column, model) ==
    Coalesce(OptCall(model[column].getFilterIdentifier, row[column]), row[column])

\* C5: filterData keeps a record if and only if the record passes the constraint of
\* every column of the filter model, a model column that the record lacks counting
\* as passed; the kept records keep their input order and their keys.
C5_KeptIffEveryModelColumnPasses ==
    fpc = "out" =>
        fout = SelectSeq(idData(fdata),
                         LAMBDA rec : \A c \in DOMAIN fmodel :
                                         \/ c \notin DOMAIN rec.row
                                         \/ keepField(rec.row, c, fmodel))

\* C5 witness: of two records the first fails a column and is dropped, the second
\* lacks the age column while the age range is set, and is kept under its key 1.
C5_Witness ==
    /\ fpc = "out"
    /\ Len(fdata) = 2
    /\ Len(fout) = 1
    /\ fout[1].key = 1
    /\ "age" \notin DOMAIN fout[1].row
    /\ fmodel["age"].input.min # NullV
    /\ \E c \in DOMAIN fmodel : ~keepField(fdata[1], c, fmodel)

\* The number a value stands for: a number itself, a Date its time value, a string
\* the time value of the date it spells.
NumericValue(v) == CASE v.t = "number" -> v
                     [] v.t = "date" -> Num(v.n)
                     [] v.t = "string" -> DateParse(v.s)
                     [] OTHER -> NaN

\* C6: with a bound set, a record passes a range filter if and only if its effective
\* value is a number x (or coerces to one) with min <= x for a set min and x <= max
\* for a set max, both inclusive; with both bounds null every record passes.
C6_RangePassesIffWithinBounds ==
    fpc = "out" =>
        LET input == fmodel["age"].input
            x == NumericValue(Effective(TheRow, "age", fmodel))
        IN  IF input.min = NullV /\ input.max = NullV
            THEN Passed
            ELSE Passed <=> /\ ~IsNaN(x)
                            /\ input.min # NullV => Lte(input.min, x)
                            /\ input.max # NullV => Lte(x, input.max)

\* A primitive value of JavaScript.
Primitive(v) == v.t \in {"string", "number", "boolean", "null", "undefined"}

\* String(v)
StringForm(v) == CASE v.t = "null" -> "null"
                   [] v.t = "undefined" -> "undefined"
                   [] OTHER -> JsToString(v)

\* C7: a record passes a checkbox filter if and only if no item is checked, or its
\* effective value is a primitive whose string form is the value of a checked item,
\* or its effective value is not a primitive.
C7_CheckboxPassesIffCheckedOrNonPrimitive ==
    fpc = "out" =>
        LET items == fmodel["name"].input.items
            effective == Effective(TheRow, "name", fmodel)
        IN  Passed <=> \/ \A i \in DOMAIN items : ~items[i].checked
                       \/ /\ Primitive(effective)
                          /\ \E i \in DOMAIN items :
                                items[i].checked /\ items[i].value = StringForm(effective)
                       \/ ~Primitive(effective)

\* C8: a record passes a select filter if and only if selected is null or the empty
\* string, or the record's effective value has the type and the value of selected.
C8_DropdownPassesIffIdentical ==
    fpc = "out" =>
        LET selected == fmodel["name"].input.selected
            effective == Effective(TheRow, "name", fmodel)
        IN  Passed <=> \/ selected.t = "null"
                       \/ selected.t = "string" /\ selected.s = ""
                       \/ /\ effective.t = selected.t
                          /\ effective.n = selected.n
                          /\ effective.h = selected.h
                          /\ effective.s = selected.s

\* C8 witness: the number 1 under the selection "1" is dropped, and an object whose
\* identifier is "a" under the selection "a" is kept.
C8_Witness ==
    /\ fpc = "out"
    /\ \/ /\ TheRow["name"] = Num(1)
          /\ fmodel["name"].input.selected = Str("1")
          /\ ~Passed
       \/ /\ TheRow["name"] = Obj("a")
          /\ fmodel["name"].getFilterIdentifier = "getId"
          /\ fmodel["name"].input.selected = Str("a")
          /\ Passed

\* No range has a bound, no checkbox item is checked, no select has a selection.
AllInactive(model) ==
    \A c \in DOMAIN model :
        CASE model[c].style \in {"date", "datetime", "time", "number"} ->
                 model[c].input.min = NullV /\ model[c].input.max = NullV
          [] model[c].style = "select" -> model[c].input.selected = NullV
          [] OTHER -> \A i \in DOMAIN model[c].input.items : ~model[c].input.items[i].checked

\* C9: under a model with no bound, no checked item and no selection, and so under
\* any model createFilters has just built, filterData returns its input unchanged.
C9_InactiveModelKeepsAll ==
    fpc = "out" =>
        /\ AllInactive(fmodel) => fout = idData(fdata)
        /\ fmodel = createFilters(fdata, colsCanFilter(AppColumns)) => AllInactive(fmodel)

\* C9 witness: a just built model with items, on two records of which one has a null
\* last name, has filtered and every record is there.
C9_Witness ==
    /\ fpc = "out"
    /\ fmodel = createFilters(fdata, colsCanFilter(AppColumns))
    /\ Len(fdata) = 2
    /\ \E i \in 1..2 : fdata[i]["lastName"] = NullV
    /\ fmodel["firstName"].input.items # <<>>
    /\ Len(fout) = 2

\* What the claim counts for one entry, by the column's style.
ActiveOf(entry) ==
    CASE entry.style \in {"date", "datetime", "time", "number"} ->
             IF entry.input.min # NullV /\ entry.input.max # NullV THEN 1 ELSE 0
      [] entry.style = "select" ->
             IF entry.input.selected \notin {NullV, Str("")} THEN 1 ELSE 0
      [] OTHER -> Cardinality({i \in DOMAIN entry.input.items : entry.input.items[i].checked})

RECURSIVE ActiveSum(_, _)
ActiveSum(model, cs) ==
    IF cs = {} THEN 0
    ELSE LET c == CHOOSE d \in cs : TRUE
         IN  ActiveOf(model[c]) + ActiveSum(model, cs \ {c})

\* Nothing that was active in `old` is inactive in `new`: checked items stay checked,
\* a selection stays a selection, a set bound stays set.
NoLessActive(old, new) ==
    \A c \in DOMAIN old :
        CASE isRangeInput(old[c].input) ->
                 /\ old[c].input.min # NullV => new[c].input.min # NullV
                 /\ old[c].input.max # NullV => new[c].input.max # NullV
          [] isDropdownInput(old[c].input) ->
                 old[c].input.selected \notin {NullV, Str("")}
                     => new[c].input.selected \notin {NullV, Str("")}
          [] OTHER -> \A i \in DOMAIN old[c].input.items :
                          old[c].input.items[i].checked => new[c].input.items[i].checked

\* C10: countFilters is the sum over the columns of 1 for a range with both bounds
\* set, the number of checked items of a checkbox filter and 1 for a select whose
\* selection is neither null nor empty; it is 0 on a just built model and does not
\* decrease when an item is checked, a selection is made or a bound is set.
C10_CountIsSumAndMonotone ==
    /\ [](fpc = "out" => fcount = ActiveSum(fmodel, DOMAIN fmodel))
    /\ [](fpc = "out" /\ fmodel = createFilters(fdata, colsCanFilter(AppColumns))
              => fcount = 0)
    /\ [][fmodel' # fmodel /\ NoLessActive(fmodel, fmodel')
              => countFilters(fmodel') >= countFilters(fmodel)]_vars

\* C10 witness: a range with both bounds, a checked item and a selection count 3.
C10_Witness ==
    /\ fpc = "out"
    /\ fcount = 3
    /\ fmodel["age"].input.min # NullV
    /\ fmodel["lastName"].input.selected \notin {NullV, Str("")}

(***************************************************************************)
(* The filter editing session: FilterButton, FilterModal, RangePicker      *)
(***************************************************************************)
\* The history variables after the handler `op`.
History(op, snapshot, since) ==
    /\ steps < MaxSteps
    /\ steps' = steps + 1
    /\ lastOp' = op
    /\ preClear' = snapshot
    /\ sinceEdit' = since
    /\ draftCleared' = CASE op = "clear" -> TRUE
                          [] op \in {"check", "range", "select", "resupply"} -> draftCleared
                          [] OTHER -> FALSE
    /\ clears' = CASE op = "clear" -> Append(clears, snapshot)
                    [] op \in {"check", "range", "select", "resupply", "close"} -> clears
                    [] OTHER -> <<>>

\* The heap once the handler has run: item objects nothing holds any more are gone.
HeapAfter(h) ==
    heap' = Collect(h, {tableFilters', filters', selectedFilters', backupSelectedFilters'})

\* updateFilters without its setNumFilters call.
updateFiltersNoCount(updatedFilters) ==
    /\ filters' = updatedFilters
    /\ numFilters' = numFilters
    /\ tableFilters' = updatedFilters

\* FilterButton.updateFilters: keep the model, count it, hand it to DataTable's setFilters.
updateFilters(updatedFilters) ==
    /\ filters' = updatedFilters
    /\ numFilters' = countFilters(Deref(updatedFilters))
    /\ tableFilters' = updatedFilters

\* FilterButton.handleOpen, the click on the filter button.  filters keeps its
\* identity, so FilterModal's effect on [filters] does not run.
handleOpen ==
    /\ ~open
    /\ updateFilters(filters)
    /\ open' = TRUE
    /\ UNCHANGED <<data, columns, selectedFilters, backupSelectedFilters, validation>>
    /\ HeapAfter(heap)
    /\ History("open", NoFilters, sinceEdit)
    /\ UNCHANGED <<functionVars, tableVars>>

\* FilterModal.handleApplyFilters, then FilterButton.handleApplyFilters, then
\* FilterModal's effect on [filters].
handleApplyFilters ==
    /\ open
    /\ validation' = [cleared |-> FALSE]
    /\ updateFilters(selectedFilters)
    /\ open' = FALSE
    /\ selectedFilters' = filters'
    /\ UNCHANGED <<data, columns, backupSelectedFilters>>
    /\ HeapAfter(heap)
    /\ History("apply", NoFilters,
               IF sinceEdit = "edited" THEN "applied" ELSE "reapplied")
    /\ UNCHANGED <<functionVars, tableVars>>

\* FilterModal.handleClose, then FilterButton.handleClose.
handleClose ==
    /\ open
    /\ selectedFilters' = IF validation.cleared THEN backupSelectedFilters
                          ELSE selectedFilters
    /\ open' = FALSE
    /\ UNCHANGED <<data, columns, tableFilters, filters, numFilters, backupSelectedFilters,
                   validation>>
    /\ HeapAfter(heap)
    /\ History("close", IF lastOp = "clear" THEN preClear ELSE NoFilters, sinceEdit)
    /\ UNCHANGED <<functionVars, tableVars>>

\* A clone left with the bounds and the selection of the original.
keptContent(m) == m

\* The content clearFilters gives the clone (lines 963-978).
clearedContent(m) ==
    [key \in DOMAIN m |->
        IF isCheckboxInput(m[key].input) THEN m[key]
        ELSE IF isRangeInput(m[key].input)
        THEN [m[key] EXCEPT !.input.max = NullV, !.input.min = NullV]
        ELSE IF isDropdownInput(m[key].input)
        THEN [m[key] EXCEPT !.input.selected = NullV]
        ELSE m[key]]

\* A clone that copies the Filters object but keeps its item objects.
shallowCloneGen(f) == f.gen

\* cloneDeep(f): the clone holds item objects of its own.
cloneDeepGen(f) == NewGen({tableFilters, filters, f})

\* FilterModal.clearFilters.
clearFilters ==
    /\ open
    /\ validation' = [validation EXCEPT !.cleared = TRUE]
    /\ backupSelectedFilters' = selectedFilters
    /\ selectedFilters' = Ref(cloneDeepGen(selectedFilters),
                              clearedContent(selectedFilters.m))
    /\ UNCHANGED <<data, columns, tableFilters, filters, numFilters, open>>
    /\ HeapAfter([heap EXCEPT ![cloneDeepGen(selectedFilters)] = {}])
    /\ History("clear", Deref(selectedFilters), "edited")
    /\ UNCHANGED <<functionVars, tableVars>>

\* The assignment item.checked = checked of selectCheckbox (lines 1010-1015), made on
\* the item objects of gen.
assignChecked(h, f, columnName, value, checked) ==
    LET items == f.m[columnName].input.items
        hit == {<<columnName, i>> : i \in {j \in DOMAIN items : items[j].value = value}}
    IN  [h EXCEPT ![f.gen] = IF checked THEN @ \cup hit ELSE @ \ hit]

\* FilterModal.selectCheckbox(checked, columnName, value), from a Checkbox's onChange.
\* The new selectedFilters has the content and the item objects of the old one.
selectCheckbox(checked, columnName, value) ==
    /\ open
    /\ isCheckboxInput(selectedFilters.m[columnName].input)
    /\ UNCHANGED <<data, columns, tableFilters, filters, numFilters, open, selectedFilters,
                   backupSelectedFilters, validation>>
    /\ HeapAfter(assignChecked(heap, selectedFilters, columnName, value, checked))
    /\ History("check", NoFilters, "edited")
    /\ UNCHANGED <<functionVars, tableVars>>

\* The entries FilterModal renders (lines 1113-1118): those whose key names a column
\* of its columns prop.
RenderedColumns ==
    {colsCanFilter(columns)[i].name : i \in DOMAIN colsCanFilter(columns)}

\* A click on a rendered checkbox: the new state is the opposite of the shown one.
clickCheckbox ==
    \E columnName \in CheckboxColumns(selectedFilters.m) \cap RenderedColumns :
        \E i \in DOMAIN selectedFilters.m[columnName].input.items :
            selectCheckbox(<<columnName, i>> \notin heap[selectedFilters.gen],
                           columnName,
                           selectedFilters.m[columnName].input.items[i].value)

\* FilterModal.setRange(columnName, min, max).
setRange(columnName, min, max) ==
    /\ open
    /\ \E i \in DOMAIN colsCanFilter(columns) : colsCanFilter(columns)[i].name = columnName
    /\ selectedFilters' = [selectedFilters EXCEPT !.m = withRange(@, columnName, min, max)]
    /\ UNCHANGED <<data, columns, tableFilters, filters, numFilters, open, backupSelectedFilters,
                   validation>>
    /\ HeapAfter(heap)
    /\ History("range", NoFilters, "edited")
    /\ UNCHANGED <<functionVars, tableVars>>

\* a > b on numbers
Gt(a, b) == ~IsNaN(a) /\ ~IsNaN(b) /\ ~Lte(a, b)

\* RangePicker, number mode: the range the Start field's onChange reports (151-162).
minChanged(newMin, maxValueNumber) ==
    IF maxValueNumber = NullV THEN <<newMin, newMin>>
    ELSE IF Gt(newMin, maxValueNumber) THEN <<newMin, newMin>>
    ELSE <<newMin, maxValueNumber>>

\* RangePicker, number mode: the range the End field's onChange reports (222-231).
maxChanged(newMax, minValueNumber) ==
    IF minValueNumber # NullV /\ Gt(minValueNumber, newMax) THEN <<newMax, newMax>>
    ELSE <<minValueNumber, newMax>>

\* The user types a number into the Start field of a range.
changeMin ==
    \E columnName \in RangeColumns(selectedFilters.m), n \in 0..MaxTyped :
        LET range == minChanged(Num(n), selectedFilters.m[columnName].input.max)
        IN  /\ range # <<selectedFilters.m[columnName].input.min,
                         selectedFilters.m[columnName].input.max>>
            /\ setRange(columnName, range[1], range[2])

\* The user types a number into the End field of a range.
changeMax ==
    \E columnName \in RangeColumns(selectedFilters.m), n \in 0..MaxTyped :
        LET range == maxChanged(Num(n), selectedFilters.m[columnName].input.min)
        IN  /\ range # <<selectedFilters.m[columnName].input.min,
                         selectedFilters.m[columnName].input.max>>
            /\ setRange(columnName, range[1], range[2])

\* FilterModal.setSelect(columnName, selected).
setSelect(columnName, selected) ==
    /\ open
    /\ \E i \in DOMAIN colsCanFilter(columns) : colsCanFilter(columns)[i].name = columnName
    /\ selectedFilters' = [selectedFilters EXCEPT
                              !.m = withSelected(@, columnName, selected)]
    /\ UNCHANGED <<data, columns, tableFilters, filters, numFilters, open, backupSelectedFilters,
                   validation>>
    /\ HeapAfter(heap)
    /\ History("select", NoFilters, "edited")
    /\ UNCHANGED <<functionVars, tableVars>>

\* The user picks a MenuItem of a Select: "Select..." (value "") or an item.
changeSelect ==
    \E columnName \in DropdownColumns(selectedFilters.m) :
        \E value \in {""} \cup {selectedFilters.m[columnName].input.items[i].value :
                                   i \in DOMAIN selectedFilters.m[columnName].input.items} :
            /\ Str(value) # selectedFilters.m[columnName].input.selected
            /\ setSelect(columnName, Str(value))

\* A comparison of dependencies that takes every newly supplied value as changed.
referenceEqual(a, b) == FALSE

\* dequal(a, b) of use-deep-compare-effect: plain data compared by structure.
dequal(a, b) == a = b

\* The application supplies a dataset and a schema, equal to the current ones or not.
\* FilterButton's deep-compare effect on [columns, data] rebuilds the model when
\* one of them differs, and then FilterModal's effect on [filters] copies it.
changeData ==
    \E d \in Datasets, c \in Schemas :
        /\ data' = d
        /\ columns' = c
        /\ IF dequal(<<colsCanFilter(c), d>>, <<colsCanFilter(columns), data>>)
           THEN /\ UNCHANGED <<tableFilters, filters, numFilters, open, selectedFilters,
                               backupSelectedFilters, validation>>
                /\ HeapAfter(heap)
                /\ History("resupply", NoFilters, sinceEdit)
           ELSE /\ filters' = Ref(NewGen({tableFilters, backupSelectedFilters}),
                                  createFilters(d, colsCanFilter(c)))
                /\ numFilters' = 0
                /\ selectedFilters' = filters'
                /\ UNCHANGED <<tableFilters, open, backupSelectedFilters, validation>>
                /\ HeapAfter([heap EXCEPT
                                 ![NewGen({tableFilters, backupSelectedFilters})] = {}])
                /\ History("rebuild", NoFilters, "edited")
        /\ UNCHANGED <<functionVars, tableVars>>

Next ==
    \/ handleOpen
    \/ handleApplyFilters
    \/ handleClose
    \/ clearFilters
    \/ clickCheckbox
    \/ changeMin
    \/ changeMax
    \/ changeSelect
    \/ changeData

Spec == Init /\ [][Next]_vars

(***************************************************************************)
(* Claims about the editing session                                        *)
(***************************************************************************)
\* C1: the committed model, the one FilterButton holds and hands to the table,
\* changes only when it is rebuilt or when apply runs: every other handler (open,
\* checkbox, range, select, clear, close) leaves its checked flags, bounds and
\* selections as they were.
C1_CommittedChangesOnlyOnRebuildOrApply ==
    [][lastOp' \notin {"apply", "rebuild"} => DerefIn(heap', filters') = Deref(filters)]_vars

\* C2: whenever the filter modal has just been opened, the draft equals the
\* committed model.
C2_DraftIsCommittedOnOpen ==
    lastOp = "open" => Deref(selectedFilters) = Deref(filters)

\* C3: clear followed at once by close, with no apply, leaves the draft as it was
\* just before the clear.
C3_ClearThenCloseRestoresDraft ==
    lastOp = "close" /\ preClear # NoFilters => Deref(selectedFilters) = preClear

\* C3 witness: a draft with a checked item and a range was cleared, then closed.
C3_Witness ==
    /\ lastOp = "close"
    /\ preClear # NoFilters
    /\ \E c \in CheckboxColumns(preClear) :
          \E i \in DOMAIN preClear[c].input.items : preClear[c].input.items[i].checked
    /\ \E c \in RangeColumns(preClear) : preClear[c].input.min # NullV

\* C4: apply makes the draft the committed model, hands that model to the table and
\* counts it; a second apply with no edit in between leaves the committed model
\* and the count as they were.
C4_ApplyCommitsDraftIdempotently ==
    [][lastOp' = "apply" =>
          /\ filters' = selectedFilters
          /\ tableFilters' = selectedFilters
          /\ DerefIn(heap', filters') = Deref(selectedFilters)
          /\ numFilters' = countFilters(Deref(selectedFilters))
          /\ sinceEdit # "edited" =>
                /\ DerefIn(heap', filters') = Deref(filters)
                /\ numFilters' = numFilters]_vars

\* C4 witness: an edited draft with two active filters was applied, and applied again.
C4_Witness ==
    /\ lastOp = "apply"
    /\ sinceEdit = "reapplied"
    /\ numFilters = 2
    /\ tableFilters = filters

\* The names of the canFilter columns of the current schema.
FilterableNames == {columns[i].name : i \in {j \in DOMAIN columns : columns[j].canFilter}}

\* C11: in every state the draft and the committed model each have an entry for every
\* canFilter column of the current schema and for no other column.
C11_ModelsHaveTheSchemasColumns ==
    /\ DOMAIN Deref(filters) = FilterableNames
    /\ DOMAIN Deref(selectedFilters) = FilterableNames

(***************************************************************************)
(* Claims about createFilters                                              *)
(***************************************************************************)
\* The column of BuildColumns with the given name.
BuildColumn(name) ==
    BuildColumns[CHOOSE i \in DOMAIN BuildColumns : BuildColumns[i].name = name]

\* The label of a record's value: the search extractor's result when the column
\* disables rendering, else the value extractor's, else the value.
LabelOf(col, value) ==
    LET extractor == IF col.disableFilterModal THEN col.getSearchEntry
                     ELSE col.getRenderedEntry
        extracted == IF extractor = "undefined" THEN UndefV ELSE Call(extractor, value)
    IN  IF Nullish(extracted) THEN value ELSE extracted

\* The stringified identity of record k: identityExtractor(value) ?? value ?? rowIndex.
IdentityOf(col, rows, k) ==
    LET value == rows[k][col.name]
        extracted == IF col.getFilterIdentifier = "undefined" THEN UndefV
                     ELSE Call(col.getFilterIdentifier, value)
    IN  IF ~Nullish(extracted) THEN JsToString(extracted)
        ELSE IF ~Nullish(value) THEN JsToString(value)
        ELSE ToString(k - 1)

\* The records whose label is not null or undefined.
Labelled(col, rows) ==
    {k \in DOMAIN rows : ~Nullish(LabelOf(col, rows[k][col.name]))}

\* The first labelled record with the identity x.
FirstWith(col, rows, x) ==
    CHOOSE k \in Labelled(col, rows) :
        /\ IdentityOf(col, rows, k) = x
        /\ \A j \in Labelled(col, rows) : IdentityOf(col, rows, j) = x => k <= j

\* C12: createFilters gives every checkbox and select column one item per distinct
\* stringified identity of the labelled records, in the order of first occurrence, no
\* two items with the same value, every checkbox item unchecked; a range column
\* gets no items.
C12_ItemsAreTheDistinctIdentities ==
    fpc = "out" =>
        \A name \in DOMAIN fmodel :
            LET col == BuildColumn(name)
                input == fmodel[name].input
            IN  IF col.style = "number"
                THEN "items" \notin DOMAIN input
                ELSE LET items == input.items
                     IN  /\ \A i, j \in DOMAIN items :
                               i # j => items[i].value # items[j].value
                         /\ {items[i].value : i \in DOMAIN items} =
                               {IdentityOf(col, fdata, k) : k \in Labelled(col, fdata)}
                         /\ \A i, j \in DOMAIN items :
                               i < j => FirstWith(col, fdata, items[i].value) <
                                            FirstWith(col, fdata, items[j].value)
                         /\ col.style = "default" =>
                               \A i \in DOMAIN items : items[i].checked = FALSE

\* C12 witness: three records were built, two of them with the same identity, one
\* without a label and one identified by its row index.
C12_Witness ==
    /\ fpc = "out"
    /\ Len(fdata) = 3
    /\ Len(fmodel["name"].input.items) = 1
    /\ Len(fmodel["kind"].input.items) = 2
    /\ \E i \in DOMAIN fmodel["ref"].input.items :
          /\ fmodel["ref"].input.items[i].value = "1"
          /\ fmodel["ref"].input.items[i].node = Str("-")

(***************************************************************************)
(* The table: DataTable's search, sort, pagination and stored page size    *)
(***************************************************************************)
\* At most this many effects and handlers run.
MaxTableSteps == 3

\* What localStorage may hold under 'rowsPerPage': nothing, what storeRowsPerPage
\* wrote, and texts written by something else.
StoredRows == {NullV, Str(""), Str("0"), Str("1"), Str("2"), Str("abc"), Str("true"),
               Str("null")}

\* The page sizes of TablePagination's rowsPerPageOptions that are offered here.
RowsPerPageOptions == {5, 10}

\* The texts typed into the search field.
TypedQueries == {<<>>, <<" ">>, <<"A">>, <<"b">>, <<".">>, <<"(">>, <<"a", " ", "B">>,
                 <<"-">>, <<"1">>}

\* A record of the table.
TableRow(name, age) == [name |-> name, age |-> Num(age)]

\* The datasets of the table.
TableDatasets ==
    {<<TableRow(Str("Ab"), 2), TableRow(Str("a b"), 1), TableRow(Str("b.c"), 3)>>,
     <<TableRow(Obj("ab"), 2), TableRow(NullV, 1)>>}

\* The schemas of the table: name and age, the same with a search extractor for
\* name, the same with a renderer for name, and no column at all.
TableSchemas ==
    {<<Column("name", "default", "undefined"), Column("age", "number", "undefined")>>,
     <<[Column("name", "default", "undefined") EXCEPT !.getSearchEntry = "getLabel"],
       Column("age", "number", "undefined")>>,
     <<[Column("name", "default", "undefined") EXCEPT !.getRenderedEntry = "orDash"],
       Column("age", "number", "undefined")>>,
     <<>>}

\* options.sort.by: the example's 'a', which names no column, and 'age'.
SortKeys == {"a", "age"}

\* The SyntaxError JSON.parse throws.
SyntaxError == [t |-> "throw", n |-> 0, h |-> FALSE, s |-> "SyntaxError"]

\* JSON.parse(text)
jsonParse(text) ==
    CASE text \in {ToString(n) : n \in 0..100} ->
             Num(CHOOSE n \in 0..100 : text = ToString(n))
      [] text = "true" -> Bool(TRUE)
      [] text = "null" -> NullV
      [] OTHER -> SyntaxError

\* JSON.stringify(n) of a number
jsonStringify(n) == ToString(n)

\* Whether if (v) takes v for true.
Truthy(v) == CASE v.t = "string" -> v.s # ""
               [] v.t = "number" -> ~IsNaN(v) /\ (v.n # 0 \/ v.h)
               [] v.t = "boolean" -> v.n = 1
               [] v.t \in {"null", "undefined"} -> FALSE
               [] OTHER -> TRUE

\* retrieveRowsPerPage(): what was stored, parsed; null when nothing was.
retrieveRowsPerPage(storedRows) ==
    IF Truthy(storedRows) THEN jsonParse(storedRows.s) ELSE NullV

\* storeRowsPerPage(n): the text that is stored.
storeRowsPerPage(n) == Str(jsonStringify(n))

\* rowsPerPage as the arithmetic of searchData and displayData takes it: true is 1.
sizeOf(v) == v.n

\* A rows-per-page change that leaves the page number as it is.
keptPage(prevPage, perPage, n) == prevPage

\* The page onRowsPerPageChange sets (lines 848-850):
\* Math.floor((prevPage * rowsPerPage) / Number(event.target.value)).
rescaledPage(prevPage, perPage, n) == (prevPage * sizeOf(perPage)) \div n

\* The page after searchData's update (lines 532-536): lowered to
\* Math.floor(toReturn.length / rowsPerPage) when that is less.
clampPage(pg, count, rpp) ==
    LET newPage == count \div sizeOf(rpp)
    IN  IF newPage < pg THEN newPage ELSE pg

\* A render of DataTable with the given state: searchData, which lowers the page,
\* tableData, and displayData, which sorts tableData in place and slices it.
Render(pg, rpp, q, sBy, sOrd, tf, hp) ==
    LET toReturn == searchData(q, idData(data), columns)
        shownPage == clampPage(pg, Len(toReturn), rpp)
        filtered == filterData(toReturn, DerefIn(hp, tf))
    IN  IF searchThrows(q, idData(data), columns)
        THEN /\ tableStatus' = "crashed"
             /\ page' = pg
             /\ UNCHANGED <<searched, tableData, displayData>>
        ELSE /\ tableStatus' = "mounted"
             /\ searched' = toReturn
             /\ page' = shownPage
             /\ tableData' \in sortOutcomes(filtered, columns, sBy, sOrd)
             /\ displayData' = slice(tableData', shownPage * sizeOf(rpp),
                                     shownPage * sizeOf(rpp) + sizeOf(rpp))

\* DataTable's first render: the default page size, no query, no filters.
TableInit ==
    /\ data \in TableDatasets
    /\ columns \in TableSchemas
    /\ tableFilters = NullRef
    /\ filters = Ref(1, createFilters(data, colsCanFilter(columns)))
    /\ numFilters = 0
    /\ open = FALSE
    /\ selectedFilters = filters
    /\ backupSelectedFilters = Ref(2, createFilters(data, colsCanFilter(columns)))
    /\ validation = [cleared |-> FALSE]
    /\ heap = [g \in Gens |-> {}]
    /\ lastOp = "mount"
    /\ preClear = NoFilters
    /\ sinceEdit = "edited"
    /\ steps = 0
    /\ draftCleared = FALSE
    /\ clears = <<>>
    /\ FunctionIdle
    /\ localStorage \in StoredRows
    /\ tableStatus = "rendered"
    /\ rowsPerPage = Num(25)
    /\ page = 0
    /\ typed = <<>>
    /\ query = <<>>
    /\ sortingBy \in SortKeys
    /\ sortingOrder = "desc"
    /\ searched = searchData(<<>>, idData(data), columns)
    /\ tableData \in sortOutcomes(filterData(searched, NoFilters), columns, sortingBy,
                                  sortingOrder)
    /\ displayData = slice(tableData, 0, 25)

\* What a step of the table leaves alone, and its place in the history.
TableStep(op) ==
    /\ steps < MaxTableSteps
    /\ steps' = steps + 1
    /\ lastOp' = op
    /\ UNCHANGED <<data, columns, filters, numFilters, open, selectedFilters,
                   backupSelectedFilters, validation, preClear, sinceEdit,
                   draftCleared, clears>>
    /\ UNCHANGED functionVars

\* DataTable's mount effect (lines 323-329): the stored page size replaces the
\* default when it is truthy; JSON.parse may throw.
mountEffect ==
    /\ tableStatus = "rendered"
    /\ TableStep("mountEffect")
    /\ UNCHANGED <<tableFilters, heap, localStorage, typed, query, sortingBy, sortingOrder>>
    /\ LET retrieveRows == retrieveRowsPerPage(localStorage)
       IN  IF retrieveRows = SyntaxError
           THEN /\ tableStatus' = "crashed"
                /\ UNCHANGED <<rowsPerPage, page, searched, tableData, displayData>>
           ELSE /\ rowsPerPage' = IF Truthy(retrieveRows) THEN retrieveRows
                                  ELSE rowsPerPage
                /\ Render(page, rowsPerPage', query, sortingBy, sortingOrder,
                          tableFilters, heap)

\* DataTable.handleSearchChange: the typed text, lowered and without whitespace,
\* becomes the query.
handleSearchChange ==
    \E value \in TypedQueries :
        /\ tableStatus = "mounted"
        /\ TableStep("search")
        /\ typed' = value
        /\ query' = removeSpace(toLocaleLowerCase(value))
        /\ UNCHANGED <<tableFilters, heap, localStorage, rowsPerPage, sortingBy,
                       sortingOrder>>
        /\ Render(page, rowsPerPage, query', sortingBy, sortingOrder, tableFilters, heap)

\* DataTable.sortByKey, from a click on a column's header.
sortByKey ==
    \E i \in DOMAIN columns :
        LET sortBy == columns[i].name
        IN  /\ tableStatus = "mounted"
            /\ TableStep("sort")
            /\ sortingBy' = sortBy
            /\ sortingOrder' = IF sortingOrder = "desc" \/ sortBy # sortingBy
                               THEN "asc" ELSE "desc"
            /\ UNCHANGED <<tableFilters, heap, localStorage, rowsPerPage, typed, query>>
            /\ Render(page, rowsPerPage, query, sortingBy', sortingOrder', tableFilters,
                      heap)

\* TablePagination's onPageChange, from its previous and next buttons.
onPageChange ==
    \E newPage \in {page - 1, page + 1} :
        /\ tableStatus = "mounted"
        /\ newPage >= 0
        /\ newPage * sizeOf(rowsPerPage) < Len(tableData)
        /\ TableStep("page")
        /\ UNCHANGED <<tableFilters, heap, localStorage, rowsPerPage, typed, query,
                       sortingBy, sortingOrder>>
        /\ Render(newPage, rowsPerPage, query, sortingBy, sortingOrder, tableFilters,
                  heap)

\* TablePagination's onRowsPerPageChange (lines 845-851).
onRowsPerPageChange ==
    \E n \in RowsPerPageOptions :
        /\ tableStatus = "mounted"
        /\ TableStep("rowsPerPage")
        /\ rowsPerPage' = Num(n)
        /\ localStorage' = storeRowsPerPage(n)
        /\ UNCHANGED <<tableFilters, heap, typed, query, sortingBy, sortingOrder>>
        /\ Render(rescaledPage(page, rowsPerPage, n), rowsPerPage', query, sortingBy,
                  sortingOrder, tableFilters, heap)

\* FilterButton calls onChange, DataTable's setFilters, with a model of the dataset
\* that has no item or one item checked.
setFilters ==
    \E on \in {{}} \cup
              {{<<c, i>>} : c \in CheckboxColumns(filters.m),
                            i \in 1..MaxRows + 1} :
        /\ tableStatus = "mounted"
        /\ colsCanFilter(columns) # <<>>
        /\ \A ci \in on : ci[2] \in DOMAIN filters.m[ci[1]].input.items
        /\ TableStep("filter")
        /\ tableFilters' = Ref(3, filters.m)
        /\ heap' = [heap EXCEPT ![3] = on]
        /\ UNCHANGED <<localStorage, rowsPerPage, typed, query, sortingBy, sortingOrder>>
        /\ Render(page, rowsPerPage, query, sortingBy, sortingOrder, tableFilters',
                  heap')

TableNext ==
    \/ mountEffect
    \/ handleSearchChange
    \/ sortByKey
    \/ onPageChange
    \/ onRowsPerPageChange
    \/ setFilters

SpecTable == TableInit /\ [][TableNext]_vars

(***************************************************************************)
(* Claims about the table                                                  *)
(***************************************************************************)
\* C13: a search with an empty or whitespace-only query returns every record of the
\* dataset in the dataset's order, whatever the schema.
C13_EmptyQueryReturnsAll ==
    lastOp = "search" /\ removeSpace(typed) = <<>> => searched = idData(data)

\* Whether q occurs in text as it is.
IsSubstring(q, text) ==
    \E at \in 0..Len(text) :
        at + Len(q) <= Len(text) /\ SubSeq(text, at + 1, at + Len(q)) = q

\* Case-folded and without whitespace.
Folded(text) == toLocaleLowerCase(removeSpace(text))

\* The derived text of a column of a record: the search extractor's result when the
\* column has one, else the display string of the raw value.
DerivedText(row, column) ==
    IF column.getSearchEntry # "undefined"
    THEN Chars(Call(column.getSearchEntry, row[column.name]).s)
    ELSE dataString(row[column.name], column.style)

\* The derived text, with no text for an object in a column that has a renderer but
\* no search extractor.
SearchedText(row, column) ==
    IF /\ column.getSearchEntry = "undefined"
       /\ column.getRenderedEntry # "undefined"
       /\ TypeOf(row[column.name]) = "object"
    THEN <<>>
    ELSE DerivedText(row, column)

\* Whether record k of the dataset is in the search result.
Found(k) == \E j \in DOMAIN searched : searched[j].key = k - 1

\* C14: after a search, no error has happened and a record is in the result if and
\* only if the folded query occurs literally in the folded derived text of one of
\* the schema's columns.
C14_FoundIffQueryInDerivedText ==
    lastOp = "search" =>
        /\ tableStatus = "mounted"
        /\ \A k \in DOMAIN data :
              Found(k) <=> \E i \in DOMAIN columns :
                              IsSubstring(Folded(typed),
                                          Folded(DerivedText(data[k], columns[i])))

\* C14, amended: the same with the text that is searched, which is empty for an
\* object in a column with a renderer and no search extractor.
C14_FoundIffQueryInSearchedText ==
    lastOp = "search" =>
        /\ tableStatus = "mounted"
        /\ \A k \in DOMAIN data :
              Found(k) <=> \E i \in DOMAIN columns :
                              IsSubstring(Folded(typed),
                                          Folded(SearchedText(data[k], columns[i])))

\* C14 witness: the query '.' was searched in three records and found in the one
\* record that has a '.'.
C14_Witness ==
    /\ lastOp = "search"
    /\ typed = <<".">>
    /\ Len(data) = 3
    /\ Len(searched) = 1
    /\ searched[1].row.name = Str("b.c")

\* C15: with the numeric column age as the sort key and the direction descending,
\* the records are displayed by decreasing age.
C15_DescendingIsLargestFirst ==
    /\ tableStatus \in {"rendered", "mounted"}
    /\ sortingBy = "age"
    /\ sortingOrder = "desc"
    /\ \E i \in DOMAIN columns : columns[i].name = "age"
    => \A i, j \in DOMAIN displayData :
           i < j => displayData[i].row.age.n >= displayData[j].row.age.n

\* C16: when the sort key names no column, the comparator orders no pair of records
\* and the table's records are in the order of the filtered input.
C16_MissingSortKeyKeepsOrder ==
    /\ tableStatus \in {"rendered", "mounted"}
    /\ \A i \in DOMAIN columns : columns[i].name # sortingBy
    => /\ \A i, j \in DOMAIN tableData :
              sortData(tableData[i], tableData[j], columns, sortingBy, sortingOrder) = 0
       /\ tableData = filterData(searched, Deref(tableFilters))

\* C17: after a search or a change of the filters the page is not beyond the last
\* page that has a visible record, and is 0 when no record is visible.
C17_PageWithinVisible ==
    tableStatus = "mounted" /\ lastOp \in {"search", "filter"} =>
        IF tableData = <<>> THEN page = 0
        ELSE page * sizeOf(rowsPerPage) < Len(tableData)

\* A stored text that is a number.
IsNumberText(v) == v.t = "string" /\ v.s \in {ToString(n) : n \in 0..100}

\* C19: the mount effect raises no error, and the page size after it is a number:
\* the default 25 unless a number was stored.
C19_MalformedPreferenceIsIgnored ==
    lastOp = "mountEffect" =>
        /\ tableStatus = "mounted"
        /\ rowsPerPage.t = "number"
        /\ IsNumberText(localStorage) \/ rowsPerPage = Num(25)

C20_NoRollbackAfterSessionEnd ==
    lastOp \in {"close", "apply"} => ~validation.cleared

(***************************************************************************)
(* Claims about clearFilters                                               *)
(***************************************************************************)
\* Every range of the model has no bounds, every item is unchecked and every
\* select has no selection.
AllCleared(m) ==
    \A c \in DOMAIN m :
        /\ isRangeInput(m[c].input) => m[c].input.min = NullV /\ m[c].input.max = NullV
        /\ isCheckboxInput(m[c].input) =>
               \A i \in DOMAIN m[c].input.items : ~m[c].input.items[i].checked
        /\ isDropdownInput(m[c].input) => m[c].input.selected = NullV

\* The two models have the same columns, and per column the same style, callbacks,
\* kind of input and items (value and label) in the same order.
SameButSelection(m1, m2) ==
    /\ DOMAIN m1 = DOMAIN m2
    /\ \A c \in DOMAIN m1 :
           /\ [f \in DOMAIN m1[c] \ {"input"} |-> m1[c][f]]
                  = [f \in DOMAIN m2[c] \ {"input"} |-> m2[c][f]]
           /\ DOMAIN m1[c].input = DOMAIN m2[c].input
           /\ "items" \in DOMAIN m1[c].input =>
                  /\ Len(m1[c].input.items) = Len(m2[c].input.items)
                  /\ \A i \in DOMAIN m1[c].input.items :
                         /\ m1[c].input.items[i].value = m2[c].input.items[i].value
                         /\ m1[c].input.items[i].node = m2[c].input.items[i].node

\* C21: clearFilters replaces the draft by a copy with every range unbounded,
\* every item unchecked and every select unselected, the columns, styles, item
\* values, labels and item order being those of the draft before; the backup is
\* that draft, and neither the clear nor an edit of the copy changes the content
\* of the backup or of the committed model.
C21_ClearCopiesAndIsolates ==
    [][/\ lastOp' = "clear" =>
             /\ AllCleared(DerefIn(heap', selectedFilters'))
             /\ SameButSelection(Deref(selectedFilters), DerefIn(heap', selectedFilters'))
             /\ DerefIn(heap', backupSelectedFilters') = Deref(selectedFilters)
             /\ DerefIn(heap', filters') = Deref(filters)
             /\ DerefIn(heap', tableFilters') = Deref(tableFilters)
       /\ draftCleared /\ lastOp' \in {"check", "range", "select"} =>
             /\ DerefIn(heap', backupSelectedFilters') = Deref(backupSelectedFilters)
             /\ DerefIn(heap', filters') = Deref(filters)
             /\ DerefIn(heap', tableFilters') = Deref(tableFilters)]_vars

\* A draft with an active filter was cleared and an item of the copy was checked
\* afterwards.
C21_Witness ==
    /\ draftCleared
    /\ lastOp = "check"
    /\ countFilters(Deref(backupSelectedFilters)) > 0
    /\ countFilters(Deref(selectedFilters)) > 0

(***************************************************************************)
(* Claims about sortData                                                   *)
(***************************************************************************)
\* C22: for a fixed sort key, direction and schema the comparator is a consistent
\* total preorder: compare(a, b) and compare(b, a) have opposite signs (both zero
\* for ties) and the relation is transitive.
C22_ComparatorIsTotalPreorder ==
    fpc = "out" =>
        /\ \A i, j \in DOMAIN fout : fout[i][j] = -fout[j][i]
        /\ \A i, j, k \in DOMAIN fout :
               fout[i][j] <= 0 /\ fout[j][k] <= 0 => fout[i][k] <= 0

\* C23: for every sort key, dispatch rule and pair of records, the comparator's
\* result under ascending has the opposite sign of its result under descending.
C23_DirectionFlipsSign ==
    fpc = "out" =>
        \A i, j \in DOMAIN fout :
            fout[i][j] = -sortData(idData(data)[i], idData(data)[j], columns, sortingBy,
                                   IF sortingOrder = "asc" THEN "desc" ELSE "asc")

\* new Date(v) is built from v: v is a Date, a number or a string.
Coercible(v) == v.t \in {"date", "number", "string"}

\* C24: under a date, datetime or time column and in both directions, the
\* comparator puts a record whose value cannot be coerced to a timestamp after
\* every record whose value can.
C24_NonCoercibleSortsLast ==
    fpc = "out" /\ sortingBy = "when" /\ columns[1].style \in {"date", "datetime", "time"} =>
        \A i, j \in DOMAIN data :
            ~Coercible(data[i].when) /\ Coercible(data[j].when) =>
                fout[i][j] > 0 /\ fout[j][i] < 0

(***************************************************************************)
(* Claims about the builder and the evaluator together                     *)
(***************************************************************************)
\* The option of the select filter on name that createFilters made from the one
\* record's value, if that value is among the values the options were built from.
OptionOf(row) ==
    {i \in DOMAIN fmodel["name"].input.items :
        /\ \E k \in DOMAIN OptionRows : OptionRows[k].name = row.name
        /\ fmodel["name"].input.items[i].value =
               JsToString(Coalesce(OptCall(fmodel["name"].getFilterIdentifier, row.name),
                                   row.name))}

\* C25: for a select column and a record whose value produced an option, the
\* model with that option's value selected keeps the record, whether the record's
\* value is a string or a number.
C25_ChosenOptionKeepsItsRecord ==
    fpc = "out" =>
        \A i \in OptionOf(TheRow) :
            fmodel["name"].input.selected = Str(fmodel["name"].input.items[i].value)
                => Passed

(***************************************************************************)
(* Claims about the filter button and the table's filtering                *)
(***************************************************************************)
\* C26: in every reachable state the active-filter count on the filter button is
\* the count of the model the table filters with, and 0 when the table has none.
C26_BadgeCountsTheTablesModel ==
    numFilters = IF tableFilters = NullRef THEN 0
                 ELSE countFilters(Deref(tableFilters))

\* A model whose active count is 0 filters no record of the current dataset out.
CountZeroKeepsAll(model) ==
    countFilters(model) = 0 => filterData(idData(data), model) = idData(data)

\* C27: for every model the filter dialog can produce, as a draft or applied, an
\* active count of 0 implies that filtering returns the dataset unchanged.
C27_CountZeroFiltersNothing ==
    /\ CountZeroKeepsAll(Deref(selectedFilters))
    /\ CountZeroKeepsAll(Deref(filters))
    /\ tableFilters # NullRef => CountZeroKeepsAll(Deref(tableFilters))

(***************************************************************************)
(* Claims about repeated clears                                            *)
(***************************************************************************)
\* C28: when clearFilters ran two or more times in a session without an apply,
\* the close leaves the draft as it was just before the first of those clears.
C28_CloseRestoresDraftBeforeFirstClear ==
    lastOp = "close" /\ Len(clears) >= 2 => Deref(selectedFilters) = clears[1]

(***************************************************************************)
(* Function specification: RangePicker's onChange under every mode         *)
(***************************************************************************)
\* moment(t).startOf('day') and moment(t).endOf('day') as time values, the zone
\* taken as UTC.
startOfDay(t) == Num(t.n - (t.n % 86400000))
endOfDay(t) == Num(startOfDay(t).n + 86399999)

\* The time values a picker reports: three instants of one day and two of the next.
PickerTimes == {Num(0), Num(1), Num(86399999), Num(86400000), Num(86400001)}

\* What the Start or End field reports: a picker the chosen time or null when it
\* is emptied, the number field Number(event.target.value).
PickerInputs(mode) ==
    IF mode = "number" THEN {Num(n) : n \in 0..MaxTyped}
    ELSE PickerTimes \cup {NullV}

\* The range the Start picker's onChange reports in the date, datetime and time
\* modes (lines 100-123).
pickerMinChanged(mode, picked, maxValueNumber) ==
    LET newMin == IF picked = NullV THEN NullV
                  ELSE IF mode = "date" THEN startOfDay(picked)
                  ELSE picked
        newMax == IF maxValueNumber = NullV THEN NullV
                  ELSE IF mode = "date" THEN endOfDay(maxValueNumber)
                  ELSE maxValueNumber
    IN  IF newMin # NullV /\ ((newMax # NullV /\ Gt(newMin, newMax)) \/ newMax = NullV)
        THEN <<newMin, newMin>>
        ELSE <<newMin, newMax>>

\* An End picker that reports what was picked beside the minimum it was given.
pickerMaxUnordered(mode, picked, minValueNumber) == <<minValueNumber, picked>>

\* The range the End picker's onChange reports in the date, datetime and time
\* modes (lines 172-196).
pickerMaxChanged(mode, picked, minValueNumber) ==
    LET newMax == IF picked = NullV THEN NullV
                  ELSE IF mode = "date" THEN endOfDay(picked)
                  ELSE picked
        newMin == IF minValueNumber = NullV THEN NullV
                  ELSE IF mode = "date" THEN startOfDay(minValueNumber)
                  ELSE minValueNumber
    IN  IF newMin # NullV /\ newMax # NullV /\ Gt(newMin, newMax)
        THEN <<newMax, newMax>>
        ELSE <<newMin, newMax>>

\* The range of the one filter of the picker specification.
PickerRange == <<fmodel["when"].input.min, fmodel["when"].input.max>>

\* One range filter of any mode whose bounds are unset or in order.
InitPicker ==
    /\ SessionIdle
    /\ \E mode \in {"number", "date", "datetime", "time"} :
          \E min \in PickerInputs(mode) \cup {NullV}, max \in PickerInputs(mode) \cup {NullV} :
              /\ min = NullV \/ max = NullV \/ Lte(min, max)
              /\ FunctionIn(<<>>, withRange(createFilters(<<>>, <<Column("when", mode,
                                                                         "undefined")>>),
                                            "when", min, max))

\* FilterModal's onChange of the RangePicker: setRange with the reported range.
Report(range) ==
    /\ fpc \in {"in", "out"}
    /\ fmodel' = withRange(fmodel, "when", range[1], range[2])
    /\ fpc' = "out"
    /\ UNCHANGED <<fdata, fout, fcount, sessionVars, tableVars>>

\* The user edits the Start field.
EditMin ==
    \E picked \in PickerInputs(fmodel["when"].style) :
        Report(IF fmodel["when"].style = "number"
               THEN minChanged(picked, PickerRange[2])
               ELSE pickerMinChanged(fmodel["when"].style, picked, PickerRange[2]))

\* The user edits the End field.
EditMax ==
    \E picked \in PickerInputs(fmodel["when"].style) :
        Report(IF fmodel["when"].style = "number"
               THEN maxChanged(picked, PickerRange[1])
               ELSE pickerMaxChanged(fmodel["when"].style, picked, PickerRange[1]))

NextPicker == EditMin \/ EditMax

SpecPicker == InitPicker /\ [][NextPicker]_vars

MaxPageRows == 16

\* The page sizes chosen in the pagination specification, of rowsPerPageOptions.
PageSizes == {5, 10, 25}

\* A mounted table of up to MaxPageRows records in the order of their ages, with
\* no query and no filter, showing a page that has a record, or page 0.
InitPage ==
    /\ \E count \in 0..MaxPageRows :
          data = [i \in 1..count |-> TableRow(Str("ab"), i)]
    /\ columns = <<Column("name", "default", "undefined"),
                   Column("age", "number", "undefined")>>
    /\ tableFilters = NullRef
    /\ filters = Ref(1, createFilters(data, colsCanFilter(columns)))
    /\ numFilters = 0
    /\ open = FALSE
    /\ selectedFilters = filters
    /\ backupSelectedFilters = Ref(2, createFilters(data, colsCanFilter(columns)))
    /\ validation = [cleared |-> FALSE]
    /\ heap = [g \in Gens |-> {}]
    /\ lastOp = "mountEffect"
    /\ preClear = NoFilters
    /\ sinceEdit = "edited"
    /\ steps = 0
    /\ draftCleared = FALSE
    /\ clears = <<>>
    /\ FunctionIdle
    /\ rowsPerPage \in {Num(n) : n \in PageSizes}
    /\ localStorage = storeRowsPerPage(sizeOf(rowsPerPage))
    /\ tableStatus = "mounted"
    /\ page \in {pg \in 0..MaxPageRows : pg = 0 \/ pg * sizeOf(rowsPerPage) < Len(data)}
    /\ typed = <<>>
    /\ query = <<>>
    /\ sortingBy = "age"
    /\ sortingOrder = "desc"
    /\ searched = idData(data)
    /\ tableData = idData(data)
    /\ displayData = slice(tableData, page * sizeOf(rowsPerPage),
                           page * sizeOf(rowsPerPage) + sizeOf(rowsPerPage))

\* TablePagination's onRowsPerPageChange and the render after it, on a table whose
\* records are in sorted order already, so that the sort leaves them in place.
changeRowsPerPage ==
    \E n \in PageSizes :
        /\ n # sizeOf(rowsPerPage)
        /\ rowsPerPage' = Num(n)
        /\ localStorage' = storeRowsPerPage(n)
        /\ page' = clampPage(rescaledPage(page, rowsPerPage, n), Len(searched), rowsPerPage')
        /\ displayData' = slice(tableData, page' * n, page' * n + n)
        /\ lastOp' = "rowsPerPage"
        /\ UNCHANGED <<data, columns, tableFilters, filters, numFilters, open,
                       selectedFilters, backupSelectedFilters, validation, heap, preClear,
                       sinceEdit, steps, draftCleared, clears>>
        /\ UNCHANGED <<tableStatus, typed, query, sortingBy, sortingOrder, searched,
                       tableData>>
        /\ UNCHANGED functionVars

SpecPage == InitPage /\ [][changeRowsPerPage]_vars

====
